---- MODULE Spec2Model ----
(***************************************************************************)
(* Model of homework5/bagging.py: SimplifiedBaggingRegressor.              *)
(*                                                                         *)
(* An object is a record of the attributes the class assigns.  An          *)
(* attribute that has not been assigned yet is the empty sequence <<>>.    *)
(* Indices stored in bags are 0-based, as numpy produces them; sequences   *)
(* are 1-based, so data[i] of the source is data[i + 1] here.              *)
(*                                                                         *)
(* Numbers produced by np.mean are exact rationals <<n, d>> in lowest      *)
(* terms with d > 0; NaN is <<0, 0>>; Python's None is <<>>.               *)
(*                                                                         *)
(* The base model is supplied by the caller.  It is modelled by a          *)
(* deterministic regressor whose fitted instance remembers its instance    *)
(* number and its training sample and predicts, for a feature x,           *)
(* (sum of its training targets) + x.                                      *)
(***************************************************************************)
EXTENDS Integers, Sequences, FiniteSets, TLC

\* ---------------------------------------------------------------- bounds
MaxN == 2          \* largest training set
MaxBags == 2       \* largest num_bags
MaxFits == 2       \* fit calls per object
MaxM == 1          \* largest input of predict
MaxSamples == 4    \* most indices one fit draws (len(data) * num_bags)
FeatureVals == {0, 1}
TargetVals == {0, 2}

VARIABLES self, twin, ret, twin_ret, ctor_calls, rng_draws

vars == <<self, twin, ret, twin_ret, ctor_calls, rng_draws>>

\* ------------------------------------------------------------ arithmetic
NaN == <<0, 0>>
None == <<>>

Abs(n) == IF n < 0 THEN -n ELSE n

RECURSIVE GCD(_, _)
GCD(a, b) == IF b = 0 THEN a ELSE GCD(b, a % b)

\* the rational n / d, d > 0, in lowest terms
Rat(n, d) == LET g == GCD(Abs(n), d) IN <<n \div g, d \div g>>

IsNaN(a) == a = NaN

RatAdd(a, b) == IF IsNaN(a) \/ IsNaN(b) THEN NaN
                ELSE Rat(a[1] * b[2] + b[1] * a[2], a[2] * b[2])

RatSub(a, b) == IF IsNaN(a) \/ IsNaN(b) THEN NaN
                ELSE Rat(a[1] * b[2] - b[1] * a[2], a[2] * b[2])

RatSquare(a) == IF IsNaN(a) THEN NaN ELSE Rat(a[1] * a[1], a[2] * a[2])

RECURSIVE RatSum(_)
RatSum(s) == IF Len(s) = 0 THEN <<0, 1>> ELSE RatAdd(s[1], RatSum(Tail(s)))

\* np.mean(values, axis=0) of a list of scalars; the mean of an empty list
\* is NaN (numpy warns "Mean of empty slice" and divides 0 by 0)
NpMean(s) ==
    IF Len(s) = 0 THEN NaN
    ELSE LET t == RatSum(s) IN
         IF IsNaN(t) THEN NaN ELSE Rat(t[1], t[2] * Len(s))

\* np.mean(rows, axis=0) of a list of equally long rows
NpMeanRowsTruncated(rows, M) ==
    [j \in 1..M |-> NpMean([b \in 1..(Len(rows) - 1) |-> rows[b][j]])]

NpMeanRows(rows, M) ==
    [j \in 1..M |-> NpMean([b \in 1..Len(rows) |-> rows[b][j]])]

\* ------------------------------------------------------------ base model
RECURSIVE SumInts(_)
SumInts(s) == IF Len(s) = 0 THEN 0 ELSE s[1] + SumInts(Tail(s))

\* model_constructor(): a fresh, untrained instance
ModelConstructor(id) == [inst |-> id, data_bag |-> <<>>, target_bag |-> <<>>]

\* model.fit(data_bag, target_bag) returns the trained model
ModelFit(model, data_bag, target_bag) ==
    [model EXCEPT !.data_bag = data_bag, !.target_bag = target_bag]

\* model.predict(data): one prediction per example
ModelPredict(model, data) ==
    [j \in 1..Len(data) |-> <<SumInts(model.target_bag) + data[j], 1>>]

\* ---------------------------------------------------------------- object
\* __init__
NewRegressor(num_bags, oob) ==
    [num_bags |-> num_bags, oob |-> oob,
     data |-> <<>>, target |-> <<>>,
     indices_list |-> <<>>, models_list |-> <<>>,
     list_of_predictions_lists |-> <<>>, oob_predictions |-> <<>>]

\* the outcomes of np.random.choice(a, size=size, replace=True)
RandomChoiceOneMore(a, size) == [1..(size + 1) -> 0..(a - 1)]

RandomChoice(a, size) == [1..size -> 0..(a - 1)]

\* the outcomes of the sampling loop of _generate_splits
SplitsOf(num_bags, data_length) ==
    [1..num_bags -> RandomChoice(data_length, data_length)]

\* _generate_splits, given the outcome of the random draws
GenerateSplits(obj, splits) == [obj EXCEPT !.indices_list = splits]

\* data[indices]
Take(arr, indices) == [k \in 1..Len(indices) |-> arr[indices[k] + 1]]

\* the two assertions of fit
BagsAssertion(obj, data) ==
    /\ Cardinality({Len(obj.indices_list[b]) : b \in 1..Len(obj.indices_list)}) = 1
    /\ Len(obj.indices_list[1]) = Len(data)

\* self.data = data; self.target = target at the head of fit
StoreDataIfOob(obj, data, target) ==
    IF obj.oob THEN [obj EXCEPT !.data = data, !.target = target] ELSE obj

StoreData(obj, data, target) == [obj EXCEPT !.data = data, !.target = target]

\* self.models_list = []
KeptModelsList(obj) == obj.models_list

NewModelsList(obj) == <<>>

\* the training loop of fit, bags 1..bag; firstId is the number of the
\* first instance the constructor hands out in this call
RECURSIVE FitModels(_, _, _, _, _)
FitModels(obj, data, target, firstId, bag) ==
    IF bag = 0 THEN NewModelsList(obj)
    ELSE LET model == ModelConstructor(firstId + bag - 1)
             data_bag == Take(data, obj.indices_list[bag])
             target_bag == Take(target, obj.indices_list[bag])
         IN  Append(FitModels(obj, data, target, firstId, bag - 1),
                    ModelFit(model, data_bag, target_bag))

\* fit: the object it leaves and whether it raised
FitObj(obj, data, target, splits, firstId) ==
    LET s1 == GenerateSplits(StoreData(obj, data, target), splits) IN
    IF ~BagsAssertion(s1, data) THEN [obj |-> s1, raised |-> TRUE]
    ELSE LET s2 == [s1 EXCEPT !.models_list =
                        FitModels(s1, data, target, firstId, s1.num_bags)]
             s3 == IF s2.oob THEN [s2 EXCEPT !.data = data, !.target = target]
                   ELSE s2
         IN  [obj |-> s3, raised |-> FALSE]

\* [model.predict(data) for model in self.models_list]
PredictEveryModel(models_list, data) ==
    [b \in 1..Len(models_list) |-> ModelPredict(models_list[b], data)]

\* predict: the value returned
PredictValue(obj, data) ==
    NpMeanRows(PredictEveryModel(obj.models_list, data), Len(data))

\* predict: the object it leaves
PredictCaching(obj, data) == [obj EXCEPT !.data = data]

PredictObj(obj, data) == obj

\* i not in self.indices_list[bag]
InBag(i, bag_indices) == \E k \in 1..Len(bag_indices) : bag_indices[k] = i

NotInBag(i, bag_indices) == \A k \in 1..Len(bag_indices) : bag_indices[k] # i

\* list_of_predictions_lists = [[] for _ in range(len(self.data))]
KeptPredictionsLists(obj) ==
    IF Len(obj.list_of_predictions_lists) = Len(obj.data)
    THEN obj.list_of_predictions_lists
    ELSE [i \in 1..Len(obj.data) |-> <<>>]

EmptyPredictionsLists(obj) == [i \in 1..Len(obj.data) |-> <<>>]

\* the inner loop of _get_oob_predictions_from_every_model for example i
\* (0-based), bags 1..bag, appending to start
RECURSIVE OobPredictionsOf(_, _, _, _)
OobPredictionsOf(obj, start, i, bag) ==
    IF bag = 0 THEN start
    ELSE LET prev == OobPredictionsOf(obj, start, i, bag - 1) IN
         IF NotInBag(i, obj.indices_list[bag])
         THEN Append(prev, ModelPredict(obj.models_list[bag], <<obj.data[i + 1]>>)[1])
         ELSE prev

\* _get_oob_predictions_from_every_model
GetOobPredictionsFromEveryModel(obj) ==
    LET lists == EmptyPredictionsLists(obj) IN
    [obj EXCEPT !.list_of_predictions_lists =
        [i \in 1..Len(obj.data) |-> OobPredictionsOf(obj, lists[i], i - 1, obj.num_bags)]]

\* len(predictions) < self.num_bags
HasSomePrediction(predictions, num_bags) == Len(predictions) > 0

IsAveraged(predictions, num_bags) == Len(predictions) < num_bags

\* _get_averaged_oob_predictions
GetAveragedOobPredictions(obj) ==
    LET o == GetOobPredictionsFromEveryModel(obj)
        l == o.list_of_predictions_lists
    IN  [o EXCEPT !.oob_predictions =
            [i \in 1..Len(l) |-> IF IsAveraged(l[i], o.num_bags)
                                 THEN NpMean(l[i]) ELSE None]]

\* the scoring loop of OOB_score, examples 1..n
RECURSIVE SquaredErrors(_, _)
SquaredErrors(obj, n) ==
    IF n = 0 THEN <<>>
    ELSE LET prev == SquaredErrors(obj, n - 1)
             prediction == obj.oob_predictions[n]
         IN  IF prediction # None
             THEN LET squared_error == RatSquare(RatSub(prediction, <<obj.target[n], 1>>))
                  IN  IF ~IsNaN(squared_error) THEN Append(prev, squared_error)
                      ELSE prev
             ELSE prev

\* OOB_score: the object it leaves and the value returned
OOBScoreObj(obj) == GetAveragedOobPredictions(obj)

OOBScoreValue(obj) ==
    LET o == OOBScoreObj(obj) IN NpMean(SquaredErrors(o, Len(o.data)))

\* -------------------------------------------------------------- machine
\* training sets: example i has feature i - 1 and a target of TargetVals
Datasets ==
    UNION {{[i \in 1..n |-> i - 1]} \X [1..n -> TargetVals] : n \in 1..MaxN}

Inputs == UNION {[1..m -> FeatureVals] : m \in 0..MaxM}

Fitted(obj) == obj.models_list # <<>>

\* consecutive calls of the same operation, counted up to 2
Nth(op) == IF ret.op = op THEN 2 ELSE 1

Init ==
    /\ \E num_bags \in 1..MaxBags, oob \in BOOLEAN :
          /\ self = NewRegressor(num_bags, oob)
          /\ twin = NewRegressor(num_bags, ~oob)
    /\ ret = [op |-> "init", arg |-> <<>>, val |-> <<>>, nth |-> 1]
    /\ twin_ret = <<>>
    /\ ctor_calls = 0
    /\ rng_draws = 0

\* fit(model_constructor, data, target) on self, the random draws being splits
FitCall(data, target, splits) ==
    LET r == FitObj(self, data, target, splits, ctor_calls + 1) IN
    /\ self' = r.obj
    /\ ret' = [op |-> "fit", arg |-> <<>>,
               val |-> IF r.raised THEN <<"AssertionError">> ELSE <<>>,
               nth |-> Nth("fit")]
    /\ rng_draws' = rng_draws + Len(splits)
    /\ ctor_calls' = IF r.raised THEN ctor_calls ELSE ctor_calls + self.num_bags

\* predict(data) on self
PredictCall(data) ==
    /\ self' = PredictObj(self, data)
    /\ ret' = [op |-> "predict", arg |-> data,
               val |-> PredictValue(self, data), nth |-> Nth("predict")]
    /\ UNCHANGED <<ctor_calls, rng_draws>>

\* OOB_score() on self
OOBScoreCall ==
    /\ self' = OOBScoreObj(self)
    /\ ret' = [op |-> "OOB_score", arg |-> <<>>,
               val |-> OOBScoreValue(self), nth |-> Nth("OOB_score")]
    /\ UNCHANGED <<ctor_calls, rng_draws>>

CanFit(n) ==
    /\ ctor_calls < MaxFits * self.num_bags
    /\ n * self.num_bags <= MaxSamples

Fit ==
    \E ds \in Datasets :
       /\ CanFit(Len(ds[1]))
       /\ \E splits \in SplitsOf(self.num_bags, Len(ds[1])) :
             FitCall(ds[1], ds[2], splits)
       /\ UNCHANGED <<twin, twin_ret>>

Predict ==
    /\ Fitted(self)
    /\ \E data \in Inputs : PredictCall(data)
    /\ UNCHANGED <<twin, twin_ret>>

GetOobPredictions ==
    /\ Fitted(self)
    /\ self' = GetOobPredictionsFromEveryModel(self)
    /\ ret' = [op |-> "_get_oob_predictions_from_every_model", arg |-> <<>>,
               val |-> <<>>, nth |-> Nth("_get_oob_predictions_from_every_model")]
    /\ UNCHANGED <<ctor_calls, rng_draws, twin, twin_ret>>

GetAveraged ==
    /\ Fitted(self)
    /\ self' = GetAveragedOobPredictions(self)
    /\ ret' = [op |-> "_get_averaged_oob_predictions", arg |-> <<>>,
               val |-> <<>>, nth |-> Nth("_get_averaged_oob_predictions")]
    /\ UNCHANGED <<ctor_calls, rng_draws, twin, twin_ret>>

OOBScore ==
    /\ Fitted(self)
    /\ OOBScoreCall
    /\ UNCHANGED <<twin, twin_ret>>

Next == Fit \/ Predict \/ GetOobPredictions \/ GetAveraged \/ OOBScore

Spec == Init /\ [][Next]_vars

\* two regressors that differ only in oob, driven by the same calls, the
\* same random draws and the same model instances
FitBoth ==
    \E ds \in Datasets :
       /\ CanFit(Len(ds[1]))
       /\ \E splits \in SplitsOf(self.num_bags, Len(ds[1])) :
             LET t == FitObj(twin, ds[1], ds[2], splits, ctor_calls + 1) IN
             /\ FitCall(ds[1], ds[2], splits)
             /\ twin' = t.obj
             /\ twin_ret' = IF t.raised THEN <<"AssertionError">> ELSE <<>>

PredictBoth ==
    /\ Fitted(self)
    /\ \E data \in Inputs :
          /\ PredictCall(data)
          /\ twin' = PredictObj(twin, data)
          /\ twin_ret' = PredictValue(twin, data)

OOBScoreBoth ==
    /\ Fitted(self)
    /\ OOBScoreCall
    /\ twin' = OOBScoreObj(twin)
    /\ twin_ret' = OOBScoreValue(twin)

NextBoth == FitBoth \/ PredictBoth \/ OOBScoreBoth

SpecBoth == Init /\ [][NextBoth]_vars

\* ------------------------------------------------------------ properties
\* the bags of obj whose index sequence does not contain example i (0-based)
Omitting(obj, i) ==
    {b \in 1..obj.num_bags :
        i \notin {obj.indices_list[b][k] : k \in 1..Len(obj.indices_list[b])}}

\* the sum over models 1..n of the model's prediction for feature x
RECURSIVE TotalPrediction(_, _, _)
TotalPrediction(models, x, n) ==
    IF n = 0 THEN 0
    ELSE ModelPredict(models[n], <<x>>)[1][1] + TotalPrediction(models, x, n - 1)

\* the elements of a set of numbers in increasing order
RECURSIVE Increasing(_)
Increasing(S) ==
    IF S = {} THEN <<>>
    ELSE LET m == CHOOSE x \in S : \A y \in S : x <= y
         IN  <<m>> \o Increasing(S \ {m})

\* the mean over the examples of S (1-based) of
\* (mean of the example's OOB predictions - its target)^2
ScoreOver(obj, S) ==
    LET order == Increasing(S) IN
    NpMean([k \in 1..Len(order) |->
              RatSquare(RatSub(NpMean(obj.list_of_predictions_lists[order[k]]),
                               <<obj.target[order[k]], 1>>))])

Averaged == ret.op \in {"_get_averaged_oob_predictions", "OOB_score"}

Gathered == Averaged \/ ret.op = "_get_oob_predictions_from_every_model"

\* C1: predict on M examples returns M aggregated predictions, and the
\* prediction for example j is the arithmetic mean over all num_bags entries
\* of models_list of that model's prediction for example j
C1_PredictIsMeanOfAllModels ==
    ret.op = "predict" =>
       /\ Len(ret.val) = Len(ret.arg)
       /\ Len(self.models_list) = self.num_bags
       /\ \A j \in 1..Len(ret.arg) :
             /\ ret.val[j] # NaN
             /\ ret.val[j][1] * self.num_bags =
                   ret.val[j][2] * TotalPrediction(self.models_list, ret.arg[j], self.num_bags)

C1_Witness ==
    /\ ret.op = "predict"
    /\ Len(ret.arg) = 1
    /\ self.num_bags = 2
    /\ ModelPredict(self.models_list[1], ret.arg) # ModelPredict(self.models_list[2], ret.arg)

\* C2: OOB_score returns the mean squared error over exactly the training
\* examples that have at least one OOB prediction
C2_ScoreOverExamplesWithAnOobPrediction ==
    ret.op = "OOB_score" =>
       ret.val = ScoreOver(self, {i \in 1..Len(self.data) : Omitting(self, i - 1) # {}})

\* C3: after any sequence of fit calls the ensemble holds exactly num_bags
\* (bag, model) pairs, the constructor was called once per bag, no instance is
\* shared, and models_list[b] is the model fitted on data/target at
\* indices_list[b] of the most recent split
C3_FitHoldsNumBagsFreshPairs ==
    Fitted(self) =>
       /\ Len(self.indices_list) = self.num_bags
       /\ Len(self.models_list) = self.num_bags
       /\ ctor_calls = rng_draws
       /\ \A b \in 1..Len(self.models_list) :
             /\ self.models_list[b].inst = ctor_calls - self.num_bags + b
             /\ self.models_list[b].data_bag = Take(self.data, self.indices_list[b])
             /\ self.models_list[b].target_bag = Take(self.target, self.indices_list[b])
       /\ \A b, c \in 1..Len(self.models_list) :
             b # c => self.models_list[b].inst # self.models_list[c].inst

C3_Witness ==
    /\ ret.op = "fit"
    /\ self.num_bags = 2
    /\ ctor_calls = 2 * self.num_bags
    /\ self.indices_list[1] # self.indices_list[2]

\* C4: _generate_splits produces exactly num_bags bags, every bag has length
\* len(data), every index lies in [0, len(data)), and the bag-length
\* assertions of fit never fail
C4_BagsHaveLengthNAndIndicesInRange ==
    self.indices_list # <<>> =>
       /\ Len(self.indices_list) = self.num_bags
       /\ \A b \in 1..Len(self.indices_list) :
             /\ Len(self.indices_list[b]) = Len(self.data)
             /\ \A k \in 1..Len(self.indices_list[b]) :
                   self.indices_list[b][k] \in 0..(Len(self.data) - 1)
       /\ (ret.op = "fit" => ret.val # <<"AssertionError">>)

C4_Witness ==
    /\ ret.op = "fit"
    /\ self.num_bags = 2
    /\ Len(self.data) = 2
    /\ self.indices_list[1] = <<1, 1>>
    /\ self.indices_list[2] = <<0, 1>>

\* C5: _get_averaged_oob_predictions records None for exactly the
\* fully-covered examples (those that appear in every bag)
C5_NoneExactlyForFullyCovered ==
    Averaged =>
       \A i \in 1..Len(self.data) :
          (self.oob_predictions[i] = None) <=> (Omitting(self, i - 1) = {})

\* C6: a second OOB_score right after a first returns the same result and
\* leaves the same derived state
C6_OOBScoreIdempotent ==
    [][(ret.op = "OOB_score" /\ ret'.op = "OOB_score") =>
          /\ ret'.val = ret.val
          /\ self'.list_of_predictions_lists = self.list_of_predictions_lists
          /\ self'.oob_predictions = self.oob_predictions
          /\ self' = self]_vars

C6_Witness ==
    /\ ret.op = "OOB_score"
    /\ ret.nth = 2
    /\ ret.val # NaN

C8_OnlyFitChangesEnsemble ==
    [][ret'.op # "fit" =>
          /\ self'.indices_list = self.indices_list
          /\ self'.models_list = self.models_list
          /\ self'.data = self.data
          /\ self'.target = self.target
          /\ self'.num_bags = self.num_bags
          /\ self'.oob = self.oob
          /\ rng_draws' = rng_draws
          /\ (ret'.op = "predict" => self' = self)]_vars

C8_Witness ==
    /\ ret.op = "predict"
    /\ ret.nth = 1
    /\ Len(ret.arg) = 1
    /\ self.oob_predictions # <<>>

C10_OobFlagHasNoEffect ==
    /\ twin = [self EXCEPT !.oob = ~self.oob]
    /\ (Fitted(self) => self.data # <<>> /\ twin.data # <<>>)
    /\ (ret.op \in {"fit", "predict", "OOB_score"} => twin_ret = ret.val)

C10_Witness ==
    /\ ret.op = "OOB_score"
    /\ ~self.oob
    /\ ret.val # NaN
    /\ twin_ret = ret.val
====
